---- MODULE Spec2Model ----
(***************************************************************************)
(* BijutsuBase web client: the infinite-scroll pagination of SearchGrid,   *)
(* the selection state shared by SearchGrid and SelectionManager, and the  *)
(* longpress action that enters select mode.                               *)
(*                                                                         *)
(* The client is single-threaded: every handler runs to its first await    *)
(* atomically, and the continuation after an await runs atomically when    *)
(* the response arrives.  Each of these is one action below.               *)
(***************************************************************************)
EXTENDS Integers, Sequences, FiniteSets, Bags

VARIABLES
    \* ---- SearchGrid.svelte: props and $state ----
    tags,          \* prop tags ("" when no search is entered)
    files,         \* $state files: sequence of sha256 hashes (small integers)
    loading,       \* $state loading
    error,         \* $state error: FALSE models null, TRUE an error message
    fetching,      \* $state fetching
    hasMore,       \* $state hasMore
    nextCursor,    \* $state nextCursor (Null or an opaque token)
    itemsPerRow,   \* $state itemsPerRow
    \* ---- the network ----
    inflight,      \* searchFiles calls awaiting their answer, in issue order
    \* ---- history variables (not program state) ----
    gen,           \* number of fetchInitialResults calls made so far
    dirty,         \* files was changed, since the last call, other than by its own answers
    sawEnd,        \* an answer of the current generation reported the end of the results
    failedMore,    \* a fetchMoreItems of the current generation has failed
    itemsBefore,   \* files as they were when fetchInitialResults was last called
    \* ---- SearchGrid.svelte: selection and lightbox $state ----
    isSelectMode,  \* $state isSelectMode
    selectedFiles, \* $state selectedFiles: set of hashes
    lightboxOpen,  \* $state lightboxOpen
    lightboxIndex, \* $state lightboxIndex
    \* ---- longpress action, one instance per thumbnail button ----
    timer,         \* per button: the closure's timer variable (NoTimer before the first press)
    timeouts,      \* the setTimeout callbacks still scheduled
    nextTimerId,   \* the id the next setTimeout returns
    \* ---- SelectionManager.svelte and its modals ----
    poolId,                  \* prop poolId: TRUE when the grid shows a pool
    deleteModalOpen,         \* $state deleteModalOpen
    bulkEditModalOpen,       \* $state bulkEditModalOpen
    selectPoolModalOpen,     \* $state selectPoolModalOpen
    removeFromPoolModalOpen, \* $state removeFromPoolModalOpen
    reorderModalOpen,        \* $state reorderModalOpen
    bulkOps,                 \* delete / pool requests awaiting their answer, in issue order
    \* ---- BulkEditModal.svelte ----
    hasChanges,              \* $state hasChanges
    removedTags,             \* $state removedTags
    commonTags,              \* $state commonTags
    isUpdatingTags,          \* $state isUpdatingTags
    isUpdatingMetadata,      \* $state isUpdatingMetadata
    editOps,                 \* bulk tag / metadata requests awaiting their answer
    \* ---- the backend and the browser, as far as the handlers reach them ----
    tagged,                  \* per tag name: the files that carry it on the server
    alertShown,              \* the text of the alert() raised by the last step, or ""
    items,                   \* VirtualCardGrid: $state items
    skip,                    \* VirtualCardGrid: $state skip
    fetchedCountRef,         \* search page: $state fetchedCountRef
    \* ---- utils.ts createProcessingPoller and the UploadModal that owns one ----
    interval,                \* poller: interval is not null
    currentSha256,           \* poller: currentSha256 (Null or a hash)
    polls,                   \* bag of hashes: the getFileStatus requests awaiting their answer
    uploadOpen,              \* UploadModal: prop isOpen
    isUploading,             \* UploadModal: $state isUploading
    isProcessing,            \* UploadModal: $state isProcessing
    uploaded,                \* UploadModal: $state uploaded (Null, a hash, or NoHashFile)
    \* ---- history variables (not program state) ----
    pagesDone,     \* VirtualCardGrid: pages loaded since fetchInitialResults was last called
    overlap,       \* VirtualCardGrid: a fetch was started while another was pending
    lost,          \* the files the bulk-edit session has taken the searched tag from
    down,          \* the presses (timer id, button, moved or not) whose pointer is still down
    lp,            \* progress of a long-press gesture begun in Idle
    session,       \* the bulk mutations that succeeded since the BulkEditModal was opened
    lastUpdate     \* poller: the status the last step gave to onUpdate, or "none"

pageVars == <<tags, files, loading, error, fetching, hasMore, nextCursor, itemsPerRow,
              inflight, gen, dirty, sawEnd, failedMore,
                   itemsBefore>>

selVars == <<isSelectMode, selectedFiles, lightboxOpen, lightboxIndex>>

pressVars == <<timer, timeouts, nextTimerId, down, lp>>

modalVars == <<poolId, deleteModalOpen, bulkEditModalOpen, selectPoolModalOpen,
               removeFromPoolModalOpen, reorderModalOpen, bulkOps>>

\* The BulkEditModal state that its $effect writes.
editEffectVars == <<hasChanges, isUpdatingTags, editOps>>

editVars == <<hasChanges, removedTags, commonTags, isUpdatingTags, isUpdatingMetadata,
              editOps>>

serverVars == <<tagged, alertShown, lost>>

mgrVars == <<modalVars, editVars, serverVars>>

\* The state of the VirtualCardGrid and of the search page that the SearchGrid
\* does not have.
gridVars == <<items, skip, pagesDone, overlap, fetchedCountRef>>

pollVars == <<interval, currentSha256, polls, uploadOpen, isUploading, isProcessing,
              uploaded, lastUpdate>>

\* The state of the components other than the SearchGrid and its
\* SelectionManager.
outsideSel == <<gridVars, pollVars>>

\* What no action outside the BulkEditModal writes.
elsewhere == <<outsideSel, session>>

vars == <<pageVars, selVars, pressVars, mgrVars, gridVars, session, pollVars>>

----------------------------------------------------------------------------
\* Bounds of the model.

\* Page size the model's server uses (searchFiles defaults to limit = 100).
PageLimit == 2

\* How many times fetchInitialResults is called in one behaviour.
MaxInits == 3

\* Page size of the VirtualCardGrid (limit; 50 in the code).
GridLimit == 2

\* How many pages one VirtualCardGrid may load after a fetchInitialResults.
MaxGridPages == 5

\* How many press-start events (setTimeout calls) one behaviour holds.
MaxPresses == 3

Null == 0

Queries == {"", "cat", "dog"}

Min(a, b) == IF a < b THEN a ELSE b

----------------------------------------------------------------------------
\* The backend, as the client sees it through GET /api/files/search.

\* The hashes matching a query, in the server's sort order.
Results(q) ==
    CASE q = "cat" -> <<1, 2, 3, 4>>
      [] q = "dog" -> <<5, 6>>
      [] q = "owl" -> <<11, 12, 13, 14, 15, 16, 17, 18, 19, 20, 21, 22>>
      [] OTHER     -> <<>>

\* The tag names typed or clicked in the bulk-edit modal.
EditTags == {"dog", "sky"}

\* On the server a file carries the tags whose search lists it.
InitTagged ==
    [n \in EditTags |-> {Results(n)[i] : i \in 1..Len(Results(n))}]

\* One page: a cursor is the position the page starts after; the answer carries
\* the continuation token and has_more.
ServerPage(q, cursor) ==
    LET all  == Results(q)
        stop == Min(cursor + PageLimit, Len(all))
        more == stop < Len(all)
    IN  [items       |-> SubSeq(all, cursor + 1, stop),
         next_cursor |-> IF more THEN stop ELSE Null,
         has_more    |-> more]

\* The sequence s without its i-th element.
RemoveAt(s, i) == SubSeq(s, 1, i - 1) \o SubSeq(s, i + 1, Len(s))

----------------------------------------------------------------------------
\* SearchGrid.svelte

\* Variant of Slice that stops one element early.
SliceOffByOne(s, start, end) == SubSeq(s, start + 1, Min(end - 1, Len(s)))

\* Array.prototype.slice(start, end) with 0 <= start <= end: the elements at
\* the 0-based positions start .. end - 1 that exist.
Slice(s, start, end) == SubSeq(s, start + 1, Min(end, Len(s)))

\* The loop of rows: for (i; i < items.length; i += k) push(items.slice(i, i + k)).
RECURSIVE RowsFrom(_, _, _)
RowsFrom(list, k, i) ==
    IF i < Len(list)
    THEN <<Slice(list, i, i + k)>> \o RowsFrom(list, k, i + k)
    ELSE <<>>

\* rows ($derived.by).
Rows == RowsFrom(files, itemsPerRow, 0)

\* rows ($derived): the number of rows the VList holds.
NumRows == (Len(files) + itemsPerRow - 1) \div itemsPerRow

\* updateItemsPerRow: the breakpoint table.
ItemsPerRowFor(width) ==
    IF width < 640 THEN 3
    ELSE IF width < 768 THEN 3
    ELSE IF width < 1024 THEN 4
    ELSE IF width < 1280 THEN 6
    ELSE 8

Widths == {500, 700, 800, 1100, 1300}

UpdateItemsPerRow(width) ==
    /\ itemsPerRow' = ItemsPerRowFor(width)
    /\ UNCHANGED <<tags, files, loading, error, fetching, hasMore, nextCursor,
                   inflight, gen, dirty, sawEnd, failedMore,
                   itemsBefore>>

\* The VList (and so vlistRef) exists only while the results branch of the
\* template is rendered.
VlistMounted == ~loading /\ ~error /\ Len(files) > 0

\* fetchInitialResults up to its await, for the query q the prop now holds.
FetchInitialResults(q) ==
    /\ gen' = gen + 1
    /\ dirty' = FALSE
    /\ sawEnd' = FALSE
    /\ failedMore' = FALSE
    /\ itemsBefore' = files
    /\ IF q = ""
       THEN /\ loading' = FALSE
            /\ files' = <<>>
            /\ nextCursor' = Null
            /\ hasMore' = FALSE
            /\ UNCHANGED <<error, inflight>>
       ELSE /\ loading' = TRUE
            /\ error' = FALSE
            /\ files' = <<>>
            /\ nextCursor' = Null
            /\ hasMore' = FALSE
            /\ inflight' = Append(inflight,
                   [kind |-> "init", gen |-> gen + 1, tags |-> q, cursor |-> Null])

\* The parent changes the tags prop; the $effect reruns fetchInitialResults.
SetTags(q) ==
    /\ gen < MaxInits
    /\ q # tags
    /\ tags' = q
    /\ FetchInitialResults(q)
    /\ UNCHANGED <<fetching, itemsPerRow>>

\* refresh(), and the first run of the $effect on mount.
Refresh ==
    /\ gen < MaxInits
    /\ FetchInitialResults(tags)
    /\ UNCHANGED <<tags, fetching, itemsPerRow>>

\* An answer is stale when fetchInitialResults has been called since its request.
Stale(r) == r.gen < gen

\* The answer reports the end of the result set.
EndOfResults(resp) == Len(resp.items) < PageLimit \/ resp.next_cursor = Null

\* fetchInitialResults after its await: the try branch and finally.
InitResponseOk(i) ==
    LET r    == inflight[i]
        resp == ServerPage(r.tags, r.cursor)
    IN  /\ r.kind = "init"
        /\ files' = resp.items
        /\ nextCursor' = resp.next_cursor
        /\ hasMore' = resp.has_more
        /\ loading' = FALSE
        /\ inflight' = RemoveAt(inflight, i)
        /\ dirty' = (dirty \/ Stale(r))
        /\ sawEnd' = (sawEnd \/ (~Stale(r) /\ EndOfResults(resp)))
        /\ UNCHANGED <<tags, error, fetching, itemsPerRow, gen, failedMore, itemsBefore>>

\* Variant of InitResponseFail without the finally.
InitResponseFailNoFinally(i) ==
    /\ inflight[i].kind = "init"
    /\ error' = TRUE
    /\ inflight' = RemoveAt(inflight, i)
    /\ UNCHANGED <<tags, files, loading, fetching, hasMore, nextCursor, itemsPerRow,
                   gen, dirty, sawEnd, failedMore, itemsBefore>>

\* fetchInitialResults after its await: the catch branch and finally.
InitResponseFail(i) ==
    /\ inflight[i].kind = "init"
    /\ error' = TRUE
    /\ loading' = FALSE
    /\ inflight' = RemoveAt(inflight, i)
    /\ UNCHANGED <<tags, files, fetching, hasMore, nextCursor, itemsPerRow,
                   gen, dirty, sawEnd, failedMore,
                   itemsBefore>>

\* Variant of FetchMoreGuard without the fetching test.
FetchMoreGuardNoFetching == tags # "" /\ hasMore /\ nextCursor # Null

\* fetchMoreItems: the condition of its early return, negated.
FetchMoreGuard == tags # "" /\ ~fetching /\ hasMore /\ nextCursor # Null

\* Variant of FetchMoreIssue that forgets fetching = true.
FetchMoreIssueNoFlag ==
    /\ fetching' = fetching
    /\ inflight' = Append(inflight,
           [kind |-> "more", gen |-> gen, tags |-> tags, cursor |-> nextCursor])

\* fetchMoreItems from fetching = true to the await.
FetchMoreIssue ==
    /\ fetching' = TRUE
    /\ inflight' = Append(inflight,
           [kind |-> "more", gen |-> gen, tags |-> tags, cursor |-> nextCursor])

\* fetchMoreItems up to its await.
FetchMoreItems ==
    \/ /\ FetchMoreGuard
       /\ FetchMoreIssue
       /\ UNCHANGED <<tags, files, loading, error, hasMore, nextCursor, itemsPerRow,
                      gen, dirty, sawEnd, failedMore,
                   itemsBefore>>
    \/ /\ ~FetchMoreGuard
       /\ UNCHANGED pageVars

\* Variant of AppendItems that puts the new page first.
AppendItemsPrepend(old, new) == new \o old

\* files = [...files, ...response.items]
AppendItems(old, new) == old \o new

\* fetchMoreItems after its await: the try branch and finally.
MoreResponseOk(i) ==
    LET r    == inflight[i]
        resp == ServerPage(r.tags, r.cursor)
    IN  /\ r.kind = "more"
        /\ files' = AppendItems(files, resp.items)
        /\ nextCursor' = resp.next_cursor
        /\ hasMore' = resp.has_more
        /\ fetching' = FALSE
        /\ inflight' = RemoveAt(inflight, i)
        /\ dirty' = (dirty \/ Stale(r))
        /\ sawEnd' = (sawEnd \/ (~Stale(r) /\ EndOfResults(resp)))
        /\ UNCHANGED <<tags, loading, error, itemsPerRow, gen, failedMore, itemsBefore>>

\* Variant of MoreResponseFail that treats the failure as the end of the
\* results and has no finally.
MoreResponseFailGivesUp(i) ==
    /\ inflight[i].kind = "more"
    /\ hasMore' = FALSE
    /\ failedMore' = TRUE
    /\ inflight' = RemoveAt(inflight, i)
    /\ UNCHANGED <<tags, files, loading, error, fetching, nextCursor, itemsPerRow,
                   gen, dirty, sawEnd, itemsBefore>>

\* fetchMoreItems after its await: the catch branch and finally.
MoreResponseFail(i) ==
    /\ inflight[i].kind = "more"
    /\ fetching' = FALSE
    /\ failedMore' = TRUE
    /\ inflight' = RemoveAt(inflight, i)
    /\ UNCHANGED <<tags, files, loading, error, hasMore, nextCursor, itemsPerRow,
                   gen, dirty, sawEnd, itemsBefore>>

\* Variant of ScrollTrigger that waits for the last row but one.
ScrollTriggerOneRow(endRowIndex) ==
    LET count                == Len(files)
        lastVisibleItemIndex == (endRowIndex + 1) * itemsPerRow
    IN  lastVisibleItemIndex >= count - itemsPerRow /\ hasMore /\ ~fetching

\* handleScroll's trigger condition for the row findEndIndex() returns.
ScrollTrigger(endRowIndex) ==
    LET count                == Len(files)
        lastVisibleItemIndex == (endRowIndex + 1) * itemsPerRow
    IN  lastVisibleItemIndex >= count - (itemsPerRow * 2) /\ hasMore /\ ~fetching

\* handleScroll, called by the VList's onscroll.
HandleScroll(endRowIndex) ==
    /\ VlistMounted
    /\ IF ScrollTrigger(endRowIndex)
       THEN FetchMoreItems
       ELSE UNCHANGED pageVars


----------------------------------------------------------------------------
\* SearchGrid.svelte: selection mode handlers.

\* The hashes the grid can show.
Hashes == UNION {{Results(q)[k] : k \in 1..Len(Results(q))} : q \in Queries}

\* The hashes of the thumbnails now in the list.
Shown == {files[k] : k \in 1..Len(files)}

\* The index of hash h in files.
IndexOf(h) == CHOOSE k \in 1..Len(files) : files[k] = h

InitSelection ==
    /\ isSelectMode = FALSE
    /\ selectedFiles = {}
    /\ lightboxOpen = FALSE
    /\ lightboxIndex = 0

\* handleLongPress(file)
HandleLongPress(h) ==
    IF ~isSelectMode
    THEN /\ isSelectMode' = TRUE
         /\ selectedFiles' = {h}
    ELSE UNCHANGED <<isSelectMode, selectedFiles>>

\* Variant of ExitWhenEmpty that never leaves select mode.
ExitWhenEmptyNever(newSet) == isSelectMode' = isSelectMode

\* toggleSelection: the isSelectMode branch's last statement.
ExitWhenEmpty(newSet) ==
    isSelectMode' = IF Cardinality(newSet) = 0 THEN FALSE ELSE isSelectMode

\* Variant of toggleSelection that opens the lightbox in select mode too.
ToggleSelectionAndOpen(h, index) ==
    /\ lightboxIndex' = index
    /\ lightboxOpen' = TRUE
    /\ IF isSelectMode
       THEN LET newSet == IF h \in selectedFiles
                          THEN selectedFiles \ {h}
                          ELSE selectedFiles \cup {h}
            IN  selectedFiles' = newSet /\ ExitWhenEmpty(newSet)
       ELSE UNCHANGED <<isSelectMode, selectedFiles>>

\* toggleSelection(file, index); index is 0-based as in the template.
ToggleSelection(h, index) ==
    IF isSelectMode
    THEN LET newSet == IF h \in selectedFiles
                       THEN selectedFiles \ {h}
                       ELSE selectedFiles \cup {h}
         IN  /\ selectedFiles' = newSet
             /\ ExitWhenEmpty(newSet)
             /\ UNCHANGED <<lightboxOpen, lightboxIndex>>
    ELSE \* openLightbox(index)
         /\ lightboxIndex' = index
         /\ lightboxOpen' = TRUE
         /\ UNCHANGED <<isSelectMode, selectedFiles>>

\* Variant of exitSelectMode that only clears the selection.
ExitSelectModeKeepMode ==
    /\ isSelectMode' = isSelectMode
    /\ selectedFiles' = {}

\* SelectionManager.svelte: exitSelectMode
ExitSelectModeBody ==
    /\ isSelectMode' = FALSE
    /\ selectedFiles' = {}

\* Lightbox closes itself through bind:isOpen.
CloseLightbox ==
    /\ lightboxOpen
    /\ lightboxOpen' = FALSE
    /\ UNCHANGED <<isSelectMode, selectedFiles, lightboxIndex>>


----------------------------------------------------------------------------
\* SelectionManager.svelte and the modals it renders.  Requests awaiting
\* their answer are kept in bags: answers arrive in any order.


\* The session record of a modal that is closed or was just opened.
NoSession == [ok |-> FALSE, last |-> [n \in EditTags |-> "none"]]

\* One more request r in bag b / the answer to r taken out of bag b.
Issue(b, r) == b (+) SetToBag({r})

Answered(b, r) == b (-) SetToBag({r})

InitManager ==
    /\ deleteModalOpen = FALSE
    /\ bulkEditModalOpen = FALSE
    /\ selectPoolModalOpen = FALSE
    /\ removeFromPoolModalOpen = FALSE
    /\ reorderModalOpen = FALSE
    /\ bulkOps = EmptyBag
    /\ hasChanges = FALSE
    /\ removedTags = {}
    /\ commonTags = {}
    /\ isUpdatingTags = FALSE
    /\ isUpdatingMetadata = FALSE
    /\ editOps = EmptyBag
    /\ alertShown = ""
    /\ lost = {}
    /\ session = NoSession

\* The record of the bulk mutations the server accepted in the current open
\* session of the BulkEditModal: whether there was any, and per tag name the
\* kind of the last one ("none", "add" or "del").
SessionAfter(s, kind, name) ==
    [ok |-> TRUE,
     last |-> IF kind = "meta" THEN s.last ELSE [s.last EXCEPT ![name] = kind]]

\* No VirtualCardGrid is mounted; fetchedCountRef has its initial value.
GridUnused ==
    /\ items = <<>>
    /\ skip = 0
    /\ pagesDone = 0
    /\ overlap = FALSE
    /\ fetchedCountRef = -1

\* createProcessingPoller as constructed, in an UploadModal that is closed.
InitPoller ==
    /\ interval = FALSE
    /\ currentSha256 = Null
    /\ polls = EmptyBag
    /\ uploadOpen = FALSE
    /\ isUploading = FALSE
    /\ isProcessing = FALSE
    /\ uploaded = Null
    /\ lastUpdate = "none"

\* The step raises no alert().
NoAlert == alertShown' = ""

\* A full-screen overlay (fixed inset-0, z-50 or z-60) lies over the grid and
\* over the toolbar (z-20): the Lightbox or one of the modals.
Overlay ==
    \/ lightboxOpen
    \/ deleteModalOpen
    \/ bulkEditModalOpen
    \/ selectPoolModalOpen
    \/ removeFromPoolModalOpen
    \/ reorderModalOpen

\* getCommonTags request of fetchCommonTags for the selection sel.
CommonTagsRequest(sel) == [kind |-> "common", name |-> "", ids |-> sel]

\* BulkEditModal.svelte: fetchCommonTags up to its await, for the selection sel.
FetchCommonTagsIssue(sel, ops) ==
    IF sel = {}
    THEN UNCHANGED isUpdatingTags /\ editOps' = ops
    ELSE isUpdatingTags' = TRUE /\ editOps' = Issue(ops, CommonTagsRequest(sel))

\* BulkEditModal.svelte: the $effect, which runs when isOpen or the
\* selectedFiles prop has been assigned; open and sel are their new values.
BulkEditEffect(open, sel) ==
    IF open
    THEN /\ FetchCommonTagsIssue(sel, editOps)
         /\ hasChanges' = FALSE
    ELSE UNCHANGED editEffectVars

\* A handler that has assigned selectedFiles: the modal's $effect follows.
AfterSelectionAssigned == BulkEditEffect(bulkEditModalOpen, selectedFiles')

----------------------------------------------------------------------------
\* actions/longpress.ts, attached to every thumbnail button.  The touch
\* handlers differ from the mouse handlers only in touchActive, which nothing
\* but the contextmenu handler's preventDefault reads; it is left out.

NoTimer == 0

NoGesture == [node |-> 0, stage |-> "none"]

InitPress ==
    /\ timer = [h \in Hashes |-> NoTimer]
    /\ timeouts = {}
    /\ nextTimerId = 1
    /\ down = {}
    /\ lp = NoGesture

\* The grid is in Idle and no press is under way.
FreshIdle == ~isSelectMode /\ selectedFiles = {} /\ timeouts = {} /\ down = {}

\* The thumbnail buttons can be reached by the pointer: the list is rendered
\* and no overlay covers it.
ButtonsReachable == VlistMounted /\ ~Overlay

\* timer = setTimeout(() => callback(), duration) on button h.
SetTimer(h) ==
    /\ timer' = [timer EXCEPT ![h] = nextTimerId]
    /\ timeouts' = timeouts \cup {[id |-> nextTimerId, node |-> h]}
    /\ nextTimerId' = nextTimerId + 1

\* clearTimeout(timer) on button h.
ClearTimer(h) == timeouts' = {t \in timeouts : t.id # timer[h]}

\* handleMousedown / handleTouchstart on button h.
PressStart(h) ==
    /\ ButtonsReachable
    /\ h \in Shown
    /\ nextTimerId <= MaxPresses
    /\ SetTimer(h)
    /\ down' = down \cup {[id |-> nextTimerId, node |-> h, moved |-> FALSE]}
    /\ lp' = IF FreshIdle THEN [node |-> h, stage |-> "down"] ELSE NoGesture
    /\ UNCHANGED <<selVars, pageVars, mgrVars>>

\* handleMouseup / handleTouchend on button h: mouseup or touchend of the
\* pointer that made press d.
PressEnd(h, d) ==
    /\ d \in down
    /\ d.node = h
    /\ ClearTimer(h)
    /\ down' = down \ {d}
    /\ lp' = IF lp = [node |-> h, stage |-> "fired"]
             THEN [node |-> h, stage |-> "up"]
             ELSE NoGesture
    /\ UNCHANGED <<timer, nextTimerId, selVars, pageVars, mgrVars>>

\* handleMouseup / handleTouchend on button h: mouseleave or touchcancel, after
\* which no pointer is down on the button.
PressCancel(h, held) ==
    /\ h \in Shown
    /\ ClearTimer(h)
    /\ down' = down \ held
    /\ lp' = NoGesture
    /\ UNCHANGED <<timer, nextTimerId, selVars, pageVars, mgrVars>>

\* The finger of press d moves beyond the tolerance (touchmove on the button).
\* The action registers no touchmove listener: no handler runs.
TouchMove(d) ==
    /\ d \in down
    /\ ~d.moved
    /\ down' = (down \ {d}) \cup {[d EXCEPT !.moved = TRUE]}
    /\ lp' = NoGesture
    /\ UNCHANGED <<timer, timeouts, nextTimerId, selVars, pageVars, mgrVars>>

\* The duration has elapsed for scheduled timeout t: callback().
TimerFires(t) ==
    /\ t \in timeouts
    /\ timeouts' = timeouts \ {t}
    /\ HandleLongPress(t.node)
    /\ IF isSelectMode THEN UNCHANGED editEffectVars ELSE AfterSelectionAssigned
    /\ lp' = IF lp = [node |-> t.node, stage |-> "down"]
             THEN [node |-> t.node, stage |-> "fired"]
             ELSE NoGesture
    /\ UNCHANGED <<timer, nextTimerId, down, lightboxOpen, lightboxIndex, pageVars,
                   modalVars, serverVars, removedTags, commonTags, isUpdatingMetadata>>

\* onclick of the button of hash h.
Click(h) ==
    /\ ButtonsReachable
    /\ h \in Shown
    /\ ToggleSelection(h, IndexOf(h) - 1)
    /\ lp' = IF lp = [node |-> h, stage |-> "up"]
             THEN [node |-> h, stage |-> "done"]
             ELSE NoGesture
    /\ NoAlert
    /\ UNCHANGED <<timer, timeouts, nextTimerId, down, pageVars, modalVars, editVars, tagged, lost>>

\* The toolbar's close button: exitSelectMode.
ExitSelectMode ==
    /\ isSelectMode
    /\ ~Overlay
    /\ ExitSelectModeBody
    /\ lp' = NoGesture
    /\ NoAlert
    /\ UNCHANGED <<lightboxOpen, lightboxIndex, timer, timeouts, nextTimerId, down,
                   pageVars, modalVars, editVars, tagged, lost>>

\* A grid whose only page is loaded.
InitLoaded ==
    /\ tags = "dog"
    /\ files = Results("dog")
    /\ loading = FALSE
    /\ error = FALSE
    /\ fetching = FALSE
    /\ hasMore = FALSE
    /\ nextCursor = Null
    /\ itemsPerRow = 6
    /\ inflight = <<>>
    /\ gen = 1
    /\ dirty = FALSE
    /\ sawEnd = TRUE
    /\ failedMore = FALSE
    /\ itemsBefore = <<>>

InitLongpress ==
    /\ InitLoaded
    /\ InitSelection
    /\ InitPress
    /\ InitManager
    /\ GridUnused
    /\ InitPoller
    /\ poolId = FALSE
    /\ tagged = InitTagged

\* The presses still held on button h.
HeldOn(h) == {d \in down : d.node = h}

NextLongpress ==
    \/ \E h \in Hashes : PressStart(h) /\ UNCHANGED elsewhere
    \/ \E h \in Hashes : \E d \in HeldOn(h) : PressEnd(h, d) /\ UNCHANGED elsewhere
    \/ \E h \in Hashes : PressCancel(h, HeldOn(h)) /\ UNCHANGED elsewhere
    \/ \E d \in down : TouchMove(d) /\ UNCHANGED elsewhere
    \/ \E t \in timeouts : TimerFires(t) /\ UNCHANGED elsewhere
    \/ \E h \in Hashes : Click(h) /\ UNCHANGED elsewhere
    \/ ExitSelectMode /\ UNCHANGED elsewhere
    \/ CloseLightbox /\ UNCHANGED <<pressVars, pageVars, mgrVars, elsewhere>>

SpecLongpress == InitLongpress /\ [][NextLongpress]_vars

----------------------------------------------------------------------------
\* The selection of one loaded grid under every operation of SearchGrid and
\* SelectionManager.  The long-press gesture is taken as its callback alone.

\* How many addFilesToPool requests may await their answer at once.
MaxPoolAdds == 1

\* How many BulkEditModal requests may be pending when the user starts another.
MaxEditOps == 1

Positions == {0, 1}

FilterOut(s, S) == SelectSeq(s, LAMBDA x : x \notin S)

pageRest == <<tags, loading, error, fetching, hasMore, nextCursor, itemsPerRow,
              inflight, gen, sawEnd, failedMore,
                   itemsBefore>>

modalFlags == <<deleteModalOpen, bulkEditModalOpen, selectPoolModalOpen,
                removeFromPoolModalOpen, reorderModalOpen>>

\* SearchGrid.svelte: handleFilesDeleted(deletedHashes)
HandleFilesDeleted(deletedHashes) ==
    /\ files' = FilterOut(files, deletedHashes)
    /\ dirty' = TRUE
    /\ UNCHANGED pageRest

\* Variant of HandleBulkEdit that prunes but leaves the selection alone.
HandleBulkEditKeepsSelection(removed) ==
    LET hasConflict == tags # "" /\ tags \in removed
    IN  /\ files' = IF hasConflict THEN FilterOut(files, selectedFiles) ELSE files
        /\ dirty' = (dirty \/ hasConflict)
        /\ UNCHANGED <<selectedFiles, isSelectMode>>
        /\ UNCHANGED pageRest

\* SearchGrid.svelte: handleBulkEdit(changes), tags being one word.
HandleBulkEdit(removed) ==
    LET hasConflict == tags # "" /\ tags \in removed
    IN  /\ files' = IF hasConflict THEN FilterOut(files, selectedFiles) ELSE files
        /\ dirty' = (dirty \/ hasConflict)
        /\ selectedFiles' = {}
        /\ isSelectMode' = FALSE
        /\ UNCHANGED pageRest

InFlight(kind) == {r \in BagToSet(bulkOps) : r.kind = kind}

\* How many requests of the kind await their answer.
InFlightCount(kind) ==
    BagCardinality([r \in InFlight(kind) |-> CopiesIn(r, bulkOps)])

\* use:longpress callback: () => handleLongPress(file).  The press is one that
\* began and reached its duration on an uncovered grid.
LongPressCallback(h) ==
    /\ ButtonsReachable
    /\ h \in Shown
    /\ HandleLongPress(h)
    /\ IF isSelectMode THEN UNCHANGED editEffectVars ELSE AfterSelectionAssigned
    /\ lp' = NoGesture
    /\ UNCHANGED <<lightboxOpen, lightboxIndex, timer, timeouts, nextTimerId, down,
                   pageVars, modalVars, serverVars, removedTags, commonTags, isUpdatingMetadata>>

\* Toolbar (rendered while isSelectMode): onclick={() => deleteModalOpen = true}
OpenDeleteModal ==
    /\ isSelectMode /\ ~Overlay
    /\ deleteModalOpen' = TRUE
    /\ NoAlert
    /\ UNCHANGED <<pageVars, selVars, pressVars, editVars, poolId, tagged, lost,
                   bulkEditModalOpen,
                   selectPoolModalOpen, removeFromPoolModalOpen, reorderModalOpen,
                   bulkOps>>

\* The continuation of handleDeleteConfirm / handleRemoveFromPoolConfirm after
\* every request has succeeded: onFilesDeleted(selectedFiles); exitSelectMode().
PruneAndExit ==
    /\ HandleFilesDeleted(selectedFiles)
    /\ ExitSelectModeBody
    /\ AfterSelectionAssigned
    /\ UNCHANGED <<lightboxOpen, lightboxIndex>>

\* DeleteConfirmationModal handleConfirm -> handleDeleteConfirm, up to the
\* await.  Promise.all of no request is fulfilled at once.
DeleteConfirm ==
    /\ deleteModalOpen
    /\ InFlight("delete") = {}
    /\ IF selectedFiles = {}
       THEN /\ PruneAndExit
            /\ deleteModalOpen' = FALSE
            /\ UNCHANGED bulkOps
       ELSE /\ bulkOps' = Issue(bulkOps, [kind |-> "delete", ids |-> selectedFiles])
            /\ UNCHANGED <<pageVars, selVars, editEffectVars, deleteModalOpen>>
    /\ NoAlert
    /\ UNCHANGED <<pressVars, poolId, tagged, lost, bulkEditModalOpen,
                   selectPoolModalOpen,
                   removeFromPoolModalOpen, reorderModalOpen, removedTags, commonTags,
                   isUpdatingMetadata>>

\* DeleteDone with the success path taken whatever the answers were.
DeleteDoneIgnoresFailure(r, ok) ==
    /\ r \in InFlight("delete")
    /\ bulkOps' = Answered(bulkOps, r)
    /\ deleteModalOpen' = FALSE
    /\ PruneAndExit
    /\ NoAlert
    /\ UNCHANGED <<pressVars, poolId, tagged, lost, bulkEditModalOpen,
                   selectPoolModalOpen, removeFromPoolModalOpen, reorderModalOpen,
                   removedTags, commonTags, isUpdatingMetadata>>

\* The deleteFile requests of r are all answered (ok) or one is rejected.
DeleteDone(r, ok) ==
    /\ r \in InFlight("delete")
    /\ bulkOps' = Answered(bulkOps, r)
    /\ deleteModalOpen' = FALSE
    /\ IF ok
       THEN /\ PruneAndExit
            /\ NoAlert
       ELSE /\ alertShown' = "Failed to delete some files"
            /\ UNCHANGED <<pageVars, selVars, editEffectVars>>
    /\ UNCHANGED <<pressVars, poolId, tagged, lost, bulkEditModalOpen,
                   selectPoolModalOpen, removeFromPoolModalOpen, reorderModalOpen,
                   removedTags, commonTags, isUpdatingMetadata>>

\* DeleteConfirmationModal handleClose
DeleteCancel ==
    /\ deleteModalOpen
    /\ InFlight("delete") = {}
    /\ deleteModalOpen' = FALSE
    /\ NoAlert
    /\ UNCHANGED <<pageVars, selVars, pressVars, editVars, poolId, tagged, lost,
                   bulkEditModalOpen,
                   selectPoolModalOpen, removeFromPoolModalOpen, reorderModalOpen,
                   bulkOps>>

\* Toolbar: onclick={() => selectPoolModalOpen = true}
OpenSelectPoolModal ==
    /\ isSelectMode /\ ~Overlay
    /\ selectPoolModalOpen' = TRUE
    /\ NoAlert
    /\ UNCHANGED <<pageVars, selVars, pressVars, editVars, poolId, tagged, lost,
                   deleteModalOpen,
                   bulkEditModalOpen, removeFromPoolModalOpen, reorderModalOpen,
                   bulkOps>>

\* SelectPoolModal handleSelect: onPoolSelected (handlePoolSelected up to its
\* await, not awaited), then handleClose.
PoolSelected ==
    /\ selectPoolModalOpen
    /\ InFlightCount("addpool") < MaxPoolAdds
    /\ bulkOps' = Issue(bulkOps, [kind |-> "addpool", ids |-> selectedFiles])
    /\ selectPoolModalOpen' = FALSE
    /\ NoAlert
    /\ UNCHANGED <<pageVars, selVars, pressVars, editVars, poolId, tagged, lost,
                   deleteModalOpen,
                   bulkEditModalOpen, removeFromPoolModalOpen, reorderModalOpen>>

\* SelectPoolModal handleClose
SelectPoolClose ==
    /\ selectPoolModalOpen
    /\ selectPoolModalOpen' = FALSE
    /\ NoAlert
    /\ UNCHANGED <<pageVars, selVars, pressVars, editVars, poolId, tagged, lost,
                   deleteModalOpen,
                   bulkEditModalOpen, removeFromPoolModalOpen, reorderModalOpen,
                   bulkOps>>

\* addFilesToPool of r is answered: the continuation of handlePoolSelected.
PoolAddDone(r, ok) ==
    /\ r \in InFlight("addpool")
    /\ bulkOps' = Answered(bulkOps, r)
    /\ IF ok
       THEN /\ ExitSelectModeBody
            /\ AfterSelectionAssigned
            /\ UNCHANGED <<lightboxOpen, lightboxIndex>>
       ELSE UNCHANGED <<selVars, editEffectVars>>
    /\ NoAlert
    /\ UNCHANGED <<pageVars, pressVars, poolId, tagged, lost, modalFlags, removedTags, commonTags,
                   isUpdatingMetadata>>

\* Toolbar, {#if poolId}: onclick={() => removeFromPoolModalOpen = true}
OpenRemoveModal ==
    /\ poolId
    /\ isSelectMode /\ ~Overlay
    /\ removeFromPoolModalOpen' = TRUE
    /\ NoAlert
    /\ UNCHANGED <<pageVars, selVars, pressVars, editVars, poolId, tagged, lost,
                   deleteModalOpen,
                   bulkEditModalOpen, selectPoolModalOpen, reorderModalOpen, bulkOps>>

\* RemoveFromPoolConfirmationModal handleConfirm -> handleRemoveFromPoolConfirm,
\* up to the await.
RemoveConfirm ==
    /\ removeFromPoolModalOpen
    /\ InFlight("remove") = {}
    /\ IF ~poolId
       THEN /\ removeFromPoolModalOpen' = FALSE
            /\ UNCHANGED <<pageVars, selVars, editEffectVars, bulkOps>>
       ELSE IF selectedFiles = {}
       THEN /\ PruneAndExit
            /\ removeFromPoolModalOpen' = FALSE
            /\ UNCHANGED bulkOps
       ELSE /\ bulkOps' = Issue(bulkOps, [kind |-> "remove", ids |-> selectedFiles])
            /\ UNCHANGED <<pageVars, selVars, editEffectVars, removeFromPoolModalOpen>>
    /\ NoAlert
    /\ UNCHANGED <<pressVars, poolId, tagged, lost, deleteModalOpen, bulkEditModalOpen,
                   selectPoolModalOpen, reorderModalOpen, removedTags, commonTags,
                   isUpdatingMetadata>>

\* The removeFileFromPool requests of r are all answered (ok) or one is rejected.
RemoveDone(r, ok) ==
    /\ r \in InFlight("remove")
    /\ bulkOps' = Answered(bulkOps, r)
    /\ removeFromPoolModalOpen' = FALSE
    /\ IF ok
       THEN /\ PruneAndExit
            /\ NoAlert
       ELSE /\ alertShown' = "Failed to remove some files from the pool"
            /\ UNCHANGED <<pageVars, selVars, editEffectVars>>
    /\ UNCHANGED <<pressVars, poolId, tagged, lost, deleteModalOpen,
                   bulkEditModalOpen, selectPoolModalOpen, reorderModalOpen,
                   removedTags, commonTags, isUpdatingMetadata>>

\* RemoveFromPoolConfirmationModal handleClose
RemoveCancel ==
    /\ removeFromPoolModalOpen
    /\ InFlight("remove") = {}
    /\ removeFromPoolModalOpen' = FALSE
    /\ NoAlert
    /\ UNCHANGED <<pageVars, selVars, pressVars, editVars, poolId, tagged, lost,
                   deleteModalOpen,
                   bulkEditModalOpen, selectPoolModalOpen, reorderModalOpen, bulkOps>>

\* Toolbar, {#if poolId}: onclick={() => reorderModalOpen = true}
OpenReorderModal ==
    /\ poolId
    /\ isSelectMode /\ ~Overlay
    /\ reorderModalOpen' = TRUE
    /\ NoAlert
    /\ UNCHANGED <<pageVars, selVars, pressVars, editVars, poolId, tagged, lost,
                   deleteModalOpen,
                   bulkEditModalOpen, selectPoolModalOpen, removeFromPoolModalOpen,
                   bulkOps>>

\* ReorderPoolModal handleConfirm -> handleReorderConfirm(position), up to the
\* await; a position below 1 is refused with an alert.
ReorderConfirm(position) ==
    /\ reorderModalOpen
    /\ InFlight("reorder") = {}
    /\ IF position < 1
       THEN UNCHANGED <<bulkOps, reorderModalOpen>>
       ELSE IF ~poolId
       THEN reorderModalOpen' = FALSE /\ UNCHANGED bulkOps
       ELSE /\ bulkOps' = Issue(bulkOps, [kind |-> "reorder", ids |-> selectedFiles])
            /\ UNCHANGED reorderModalOpen
    /\ alertShown' = IF position < 1 THEN "Position must be at least 1" ELSE ""
    /\ UNCHANGED <<pageVars, selVars, pressVars, editVars, poolId, tagged,
                   lost, deleteModalOpen, bulkEditModalOpen, selectPoolModalOpen,
                   removeFromPoolModalOpen>>

\* reorderPoolFiles of r is answered.  SearchGrid passes no onReorder.
ReorderDone(r, ok) ==
    /\ r \in InFlight("reorder")
    /\ bulkOps' = Answered(bulkOps, r)
    /\ reorderModalOpen' = FALSE
    /\ IF ok
       THEN /\ ExitSelectModeBody
            /\ AfterSelectionAssigned
            /\ UNCHANGED <<lightboxOpen, lightboxIndex>>
       ELSE UNCHANGED <<selVars, editEffectVars>>
    /\ alertShown' = IF ok THEN "" ELSE "Failed to reorder files in the pool"
    /\ UNCHANGED <<pageVars, pressVars, poolId, tagged, lost,
                   deleteModalOpen, bulkEditModalOpen, selectPoolModalOpen,
                   removeFromPoolModalOpen, removedTags, commonTags, isUpdatingMetadata>>

\* ReorderPoolModal handleClose
ReorderCancel ==
    /\ reorderModalOpen
    /\ InFlight("reorder") = {}
    /\ reorderModalOpen' = FALSE
    /\ NoAlert
    /\ UNCHANGED <<pageVars, selVars, pressVars, editVars, poolId, tagged, lost,
                   deleteModalOpen,
                   bulkEditModalOpen, selectPoolModalOpen, removeFromPoolModalOpen,
                   bulkOps>>

\* Toolbar: onclick={() => bulkEditModalOpen = true}; the modal's $effect runs.
OpenBulkEdit ==
    /\ isSelectMode /\ ~Overlay
    /\ bulkEditModalOpen' = TRUE
    /\ BulkEditEffect(TRUE, selectedFiles)
    /\ lost' = {}
    /\ session' = NoSession
    /\ NoAlert
    /\ UNCHANGED <<pageVars, selVars, pressVars, poolId, tagged,
                   deleteModalOpen, selectPoolModalOpen, removeFromPoolModalOpen,
                   reorderModalOpen, bulkOps, removedTags, commonTags, isUpdatingMetadata>>

\* TagSection is rendered unless isUpdatingTags and disabled while
\* isUpdatingMetadata; the metadata selects are disabled on either flag.
EditControlsEnabled == bulkEditModalOpen /\ ~isUpdatingTags /\ ~isUpdatingMetadata

EditInFlight(kinds) == {r \in BagToSet(editOps) : r.kind \in kinds}

\* handleBulkAddTag(name) / handleBulkDeleteTag(name) up to the first await.
HandleBulkTag(kind, name) ==
    /\ EditControlsEnabled
    /\ selectedFiles # {}
    /\ BagCardinality(editOps) < MaxEditOps
    /\ isUpdatingTags' = TRUE
    /\ editOps' = Issue(editOps, [kind |-> kind, name |-> name, ids |-> selectedFiles])
    /\ NoAlert
    /\ UNCHANGED <<pageVars, selVars, pressVars, modalVars, tagged, lost, hasChanges,
                   removedTags, commonTags,
                   isUpdatingMetadata>>

HandleBulkAddTag(name) == HandleBulkTag("add", name)

\* TagSection offers the delete control on the tags it is given, commonTags.
HandleBulkDeleteTag(name) == name \in commonTags /\ HandleBulkTag("del", name)

\* The server carries out an accepted bulkAssociateTag / bulkDissociateTag on
\* the files of the request; lost follows the searched tag.
ServerApplyTag(r, ok) ==
    IF ok
    THEN /\ tagged' = [tagged EXCEPT ![r.name] =
                          IF r.kind = "add" THEN @ \cup r.ids ELSE @ \ r.ids]
         /\ lost' = IF r.name # tags THEN lost
                    ELSE IF r.kind = "add" THEN lost \ r.ids
                    ELSE lost \cup (r.ids \cap tagged[r.name])
    ELSE UNCHANGED <<tagged, lost>>

\* TagOpDone without removedTags.delete(name) after a successful add.
TagOpDoneAddKeepsRemoved(r, ok) ==
    /\ r \in EditInFlight({"add", "del"})
    /\ hasChanges' = (ok \/ hasChanges)
    /\ removedTags' = IF ~ok THEN removedTags
                      ELSE IF r.kind = "add" THEN removedTags
                      ELSE removedTags \cup {r.name}
    /\ IF selectedFiles = {}
       THEN isUpdatingTags' = FALSE /\ editOps' = Answered(editOps, r)
       ELSE FetchCommonTagsIssue(selectedFiles, Answered(editOps, r))
    /\ ServerApplyTag(r, ok)
    /\ session' = IF ok THEN SessionAfter(session, r.kind, r.name) ELSE session
    /\ NoAlert
    /\ UNCHANGED <<pageVars, selVars, pressVars, modalVars, commonTags,
                   isUpdatingMetadata>>

\* bulkAssociateTag / bulkDissociateTag of r is answered: the rest of the
\* handler up to await fetchCommonTags(), which returns at once (and the
\* finally clears isUpdatingTags) when nothing is selected.
TagOpDone(r, ok) ==
    /\ r \in EditInFlight({"add", "del"})
    /\ hasChanges' = (ok \/ hasChanges)
    /\ removedTags' = IF ~ok THEN removedTags
                      ELSE IF r.kind = "add" THEN removedTags \ {r.name}
                      ELSE removedTags \cup {r.name}
    /\ IF selectedFiles = {}
       THEN isUpdatingTags' = FALSE /\ editOps' = Answered(editOps, r)
       ELSE FetchCommonTagsIssue(selectedFiles, Answered(editOps, r))
    /\ ServerApplyTag(r, ok)
    /\ session' = IF ok THEN SessionAfter(session, r.kind, r.name) ELSE session
    /\ NoAlert
    /\ UNCHANGED <<pageVars, selVars, pressVars, modalVars, commonTags,
                   isUpdatingMetadata>>

\* The tags every file of ids carries on the server.
CommonTagsOf(ids) == {n \in EditTags : ids \subseteq tagged[n]}

\* getCommonTags is answered or fails: the rest of fetchCommonTags and its
\* finally (and that of the tag handler awaiting it).
CommonTagsDone(r, ok) ==
    /\ r \in EditInFlight({"common"})
    /\ editOps' = Answered(editOps, r)
    /\ commonTags' = IF ok THEN CommonTagsOf(r.ids) ELSE commonTags
    /\ isUpdatingTags' = FALSE
    /\ NoAlert
    /\ UNCHANGED <<pageVars, selVars, pressVars, modalVars, tagged, lost, hasChanges,
                   removedTags, isUpdatingMetadata>>

\* handleMetadataUpdate(updates) with a rating or an AI flag chosen, up to the
\* await.
HandleMetadataUpdate ==
    /\ EditControlsEnabled
    /\ selectedFiles # {}
    /\ BagCardinality(editOps) < MaxEditOps
    /\ isUpdatingMetadata' = TRUE
    /\ editOps' = Issue(editOps, [kind |-> "meta", name |-> "", ids |-> {}])
    /\ NoAlert
    /\ UNCHANGED <<pageVars, selVars, pressVars, modalVars, tagged, lost, hasChanges,
                   removedTags, commonTags,
                   isUpdatingTags>>

\* bulkUpdateFileMetadata is answered.
MetadataDone(r, ok) ==
    /\ r \in EditInFlight({"meta"})
    /\ editOps' = Answered(editOps, r)
    /\ hasChanges' = (ok \/ hasChanges)
    /\ isUpdatingMetadata' = FALSE
    /\ session' = IF ok THEN SessionAfter(session, r.kind, r.name) ELSE session
    /\ NoAlert
    /\ UNCHANGED <<pageVars, selVars, pressVars, modalVars, tagged, lost, removedTags, commonTags,
                   isUpdatingTags>>

\* BulkEditModal handleCloseModal: the close button, the backdrop or Escape.
HandleCloseModal ==
    /\ bulkEditModalOpen
    /\ IF isUpdatingTags \/ isUpdatingMetadata
       THEN UNCHANGED vars
       ELSE /\ bulkEditModalOpen' = FALSE
            /\ IF hasChanges
               THEN HandleBulkEdit(removedTags)
               ELSE UNCHANGED <<pageVars, isSelectMode, selectedFiles>>
            /\ commonTags' = {}
            /\ hasChanges' = FALSE
            /\ removedTags' = {}
            /\ lost' = {}
            /\ session' = NoSession
            /\ NoAlert
            /\ UNCHANGED <<lightboxOpen, lightboxIndex, pressVars, poolId, tagged,
                           deleteModalOpen, selectPoolModalOpen,
                           removeFromPoolModalOpen, reorderModalOpen, bulkOps,
                           isUpdatingTags, isUpdatingMetadata, editOps>>

InitSel ==
    /\ InitLoaded
    /\ InitSelection
    /\ InitPress
    /\ InitManager
    /\ GridUnused
    /\ InitPoller
    /\ poolId \in BOOLEAN
    /\ tagged = InitTagged

NextSel ==
    \/ \E h \in Hashes : LongPressCallback(h) /\ UNCHANGED elsewhere
    \/ \E h \in Hashes : Click(h) /\ UNCHANGED elsewhere
    \/ ExitSelectMode /\ UNCHANGED elsewhere
    \/ CloseLightbox /\ NoAlert /\ UNCHANGED <<pressVars, pageVars, modalVars, editVars, tagged, lost>>
           /\ UNCHANGED elsewhere
    \/ OpenDeleteModal /\ UNCHANGED elsewhere
    \/ DeleteConfirm /\ UNCHANGED elsewhere
    \/ \E r \in InFlight("delete") : DeleteDone(r, TRUE) /\ UNCHANGED elsewhere
    \/ \E r \in InFlight("delete") : DeleteDone(r, FALSE) /\ UNCHANGED elsewhere
    \/ DeleteCancel /\ UNCHANGED elsewhere
    \/ OpenSelectPoolModal /\ UNCHANGED elsewhere
    \/ PoolSelected /\ UNCHANGED elsewhere
    \/ SelectPoolClose /\ UNCHANGED elsewhere
    \/ \E r \in InFlight("addpool") : PoolAddDone(r, TRUE) /\ UNCHANGED elsewhere
    \/ \E r \in InFlight("addpool") : PoolAddDone(r, FALSE) /\ UNCHANGED elsewhere
    \/ OpenRemoveModal /\ UNCHANGED elsewhere
    \/ RemoveConfirm /\ UNCHANGED elsewhere
    \/ \E r \in InFlight("remove") : RemoveDone(r, TRUE) /\ UNCHANGED elsewhere
    \/ \E r \in InFlight("remove") : RemoveDone(r, FALSE) /\ UNCHANGED elsewhere
    \/ RemoveCancel /\ UNCHANGED elsewhere
    \/ OpenReorderModal /\ UNCHANGED elsewhere
    \/ \E position \in Positions : ReorderConfirm(position) /\ UNCHANGED elsewhere
    \/ \E r \in InFlight("reorder") : ReorderDone(r, TRUE) /\ UNCHANGED elsewhere
    \/ \E r \in InFlight("reorder") : ReorderDone(r, FALSE) /\ UNCHANGED elsewhere
    \/ ReorderCancel /\ UNCHANGED elsewhere
    \/ OpenBulkEdit /\ UNCHANGED outsideSel
    \/ \E name \in EditTags : HandleBulkAddTag(name) /\ UNCHANGED elsewhere
    \/ \E name \in EditTags : HandleBulkDeleteTag(name) /\ UNCHANGED elsewhere
    \/ \E r \in EditInFlight({"add", "del"}) : TagOpDone(r, TRUE) /\ UNCHANGED outsideSel
    \/ \E r \in EditInFlight({"add", "del"}) : TagOpDone(r, FALSE) /\ UNCHANGED outsideSel
    \/ \E r \in EditInFlight({"common"}) : CommonTagsDone(r, TRUE) /\ UNCHANGED elsewhere
    \/ \E r \in EditInFlight({"common"}) : CommonTagsDone(r, FALSE) /\ UNCHANGED elsewhere
    \/ HandleMetadataUpdate /\ UNCHANGED elsewhere
    \/ \E r \in EditInFlight({"meta"}) : MetadataDone(r, TRUE) /\ UNCHANGED outsideSel
    \/ \E r \in EditInFlight({"meta"}) : MetadataDone(r, FALSE) /\ UNCHANGED outsideSel
    \/ HandleCloseModal /\ UNCHANGED outsideSel

SpecSel == InitSel /\ [][NextSel]_vars

----------------------------------------------------------------------------
\* The pagination of one SearchGrid.

InitPage ==
    /\ tags = ""
    /\ files = <<>>
    /\ loading = FALSE
    /\ error = FALSE
    /\ fetching = FALSE
    /\ hasMore = FALSE
    /\ nextCursor = Null
    /\ itemsPerRow = 6
    /\ inflight = <<>>
    /\ gen = 0
    /\ dirty = FALSE
    /\ sawEnd = FALSE
    /\ failedMore = FALSE
    /\ itemsBefore = <<>>
    /\ InitSelection
    /\ InitPress
    /\ InitManager
    /\ GridUnused
    /\ InitPoller
    /\ poolId = FALSE
    /\ tagged = InitTagged

\* The pagination handlers leave the selection, the presses and the modals alone.
NextPage ==
    \/ \E q \in Queries : SetTags(q) /\ UNCHANGED <<selVars, pressVars, mgrVars, elsewhere>>
    \/ Refresh /\ UNCHANGED <<selVars, pressVars, mgrVars, elsewhere>>
    \/ \E i \in 1..Len(inflight) :
           InitResponseOk(i) /\ UNCHANGED <<selVars, pressVars, mgrVars, elsewhere>>
    \/ \E i \in 1..Len(inflight) :
           InitResponseFail(i) /\ UNCHANGED <<selVars, pressVars, mgrVars, elsewhere>>
    \/ \E i \in 1..Len(inflight) :
           MoreResponseOk(i) /\ UNCHANGED <<selVars, pressVars, mgrVars, elsewhere>>
    \/ \E i \in 1..Len(inflight) :
           MoreResponseFail(i) /\ UNCHANGED <<selVars, pressVars, mgrVars, elsewhere>>
    \/ \E e \in 0..(NumRows - 1) :
           HandleScroll(e) /\ UNCHANGED <<selVars, pressVars, mgrVars, elsewhere>>
    \/ \E w \in Widths :
           UpdateItemsPerRow(w) /\ UNCHANGED <<selVars, pressVars, mgrVars, elsewhere>>

SpecPage == InitPage /\ [][NextPage]_vars

\* The request that has waited longest is answered or rejected.
AnswerOldest ==
    /\ inflight # <<>>
    /\ \/ InitResponseOk(1)
       \/ InitResponseFail(1)
       \/ MoreResponseOk(1)
       \/ MoreResponseFail(1)
    /\ UNCHANGED <<selVars, pressVars, mgrVars, elsewhere>>

\* Every request issued is answered or rejected in the end: none waits for
\* ever at the head of the pending requests.
SpecPageFair == SpecPage /\ WF_vars(AnswerOldest)

\* The sequences without repetition of elements of S.
InjectiveSeqs(S) ==
    UNION {{f \in [1..n -> S] : \A i, j \in 1..n : i # j => f[i] # f[j]} :
           n \in 0..Cardinality(S)}

\* A grid holding any list of files, at the initial itemsPerRow.
InitRows ==
    /\ tags = "cat"
    /\ files \in InjectiveSeqs(Hashes)
    /\ loading = FALSE
    /\ error = FALSE
    /\ fetching = FALSE
    /\ hasMore = FALSE
    /\ nextCursor = Null
    /\ itemsPerRow = 6
    /\ inflight = <<>>
    /\ gen = 1
    /\ dirty = FALSE
    /\ sawEnd = TRUE
    /\ failedMore = FALSE
    /\ itemsBefore = <<>>
    /\ InitSelection
    /\ InitPress
    /\ InitManager
    /\ GridUnused
    /\ InitPoller
    /\ poolId = FALSE
    /\ tagged = InitTagged

\* The window is resized: the rows are regrouped.
NextRows ==
    \E w \in Widths :
        UpdateItemsPerRow(w) /\ UNCHANGED <<selVars, pressVars, mgrVars, elsewhere>>

SpecRows == InitRows /\ [][NextRows]_vars

\* A SearchGrid for a query with many results, scrolled and refreshed.
InitScroll ==
    /\ tags = "owl"
    /\ files = <<>>
    /\ loading = FALSE
    /\ error = FALSE
    /\ fetching = FALSE
    /\ hasMore = FALSE
    /\ nextCursor = Null
    /\ itemsPerRow = 6
    /\ inflight = <<>>
    /\ gen = 0
    /\ dirty = FALSE
    /\ sawEnd = FALSE
    /\ failedMore = FALSE
    /\ itemsBefore = <<>>
    /\ InitSelection
    /\ InitPress
    /\ InitManager
    /\ GridUnused
    /\ InitPoller
    /\ poolId = FALSE
    /\ tagged = InitTagged

NextScroll ==
    \/ Refresh /\ UNCHANGED <<selVars, pressVars, mgrVars, elsewhere>>
    \/ \E i \in 1..Len(inflight) :
           InitResponseOk(i) /\ UNCHANGED <<selVars, pressVars, mgrVars, elsewhere>>
    \/ \E i \in 1..Len(inflight) :
           InitResponseFail(i) /\ UNCHANGED <<selVars, pressVars, mgrVars, elsewhere>>
    \/ \E i \in 1..Len(inflight) :
           MoreResponseOk(i) /\ UNCHANGED <<selVars, pressVars, mgrVars, elsewhere>>
    \/ \E i \in 1..Len(inflight) :
           MoreResponseFail(i) /\ UNCHANGED <<selVars, pressVars, mgrVars, elsewhere>>
    \/ \E e \in 0..(NumRows - 1) :
           HandleScroll(e) /\ UNCHANGED <<selVars, pressVars, mgrVars, elsewhere>>
    \/ \E w \in Widths :
           UpdateItemsPerRow(w) /\ UNCHANGED <<selVars, pressVars, mgrVars, elsewhere>>

SpecScroll == InitScroll /\ [][NextScroll]_vars

\* fetchMoreItems called on its own, in whatever state the grid is in.
NextPageDirect ==
    \/ NextPage
    \/ FetchMoreItems /\ UNCHANGED <<selVars, pressVars, mgrVars, elsewhere>>

SpecPageDirect == InitPage /\ [][NextPageDirect]_vars

----------------------------------------------------------------------------
\* The search page that keeps its own list (thumbnails, files here) and
\* fetchedCountRef.  Its fetchInitialResults and fetchMoreItems are those of
\* SearchGrid but for fetchedCountRef = -1 in the former.

\* What the search page's pagination leaves alone.
searchRest == <<selVars, pressVars, mgrVars, items, skip, pagesDone, overlap, session,
                pollVars>>

\* The $effect on a change of the URL's tags, or handleSearch with the query
\* unchanged: fetchInitialResults up to its await.
SearchPageFetch(q) ==
    /\ gen < MaxInits
    /\ tags' = q
    /\ FetchInitialResults(q)
    /\ fetchedCountRef' = -1
    /\ UNCHANGED <<fetching, itemsPerRow, searchRest>>

\* handleScroll's trigger condition for the row findEndIndex() returns.
SearchPageTrigger(endRowIndex) ==
    LET count                == Len(files)
        lastVisibleItemIndex == (endRowIndex + 1) * itemsPerRow
    IN  /\ fetchedCountRef < count
        /\ lastVisibleItemIndex >= count
        /\ hasMore
        /\ ~fetching

\* handleScroll, called by the VList's onscroll.
SearchPageScroll(endRowIndex) ==
    /\ VlistMounted
    /\ IF SearchPageTrigger(endRowIndex)
       THEN fetchedCountRef' = Len(files) /\ FetchMoreItems
       ELSE UNCHANGED <<pageVars, fetchedCountRef>>
    /\ UNCHANGED searchRest

InitSearchPage ==
    /\ tags = ""
    /\ files = <<>>
    /\ loading = TRUE
    /\ error = FALSE
    /\ fetching = FALSE
    /\ hasMore = FALSE
    /\ nextCursor = Null
    /\ itemsPerRow = 6
    /\ inflight = <<>>
    /\ gen = 0
    /\ dirty = FALSE
    /\ sawEnd = FALSE
    /\ failedMore = FALSE
    /\ itemsBefore = <<>>
    /\ InitSelection
    /\ InitPress
    /\ InitManager
    /\ GridUnused
    /\ InitPoller
    /\ poolId = FALSE
    /\ tagged = InitTagged

NextSearchPage ==
    \/ \E q \in Queries : SearchPageFetch(q)
    \/ \E i \in 1..Len(inflight) :
           InitResponseOk(i) /\ UNCHANGED <<fetchedCountRef, searchRest>>
    \/ \E i \in 1..Len(inflight) :
           InitResponseFail(i) /\ UNCHANGED <<fetchedCountRef, searchRest>>
    \/ \E i \in 1..Len(inflight) :
           MoreResponseOk(i) /\ UNCHANGED <<fetchedCountRef, searchRest>>
    \/ \E i \in 1..Len(inflight) :
           MoreResponseFail(i) /\ UNCHANGED <<fetchedCountRef, searchRest>>
    \/ \E e \in 0..(NumRows - 1) : SearchPageScroll(e)
    \/ \E w \in Widths :
           UpdateItemsPerRow(w) /\ UNCHANGED <<fetchedCountRef, searchRest>>

SpecSearchPage == InitSearchPage /\ [][NextSearchPage]_vars

----------------------------------------------------------------------------
\* routes/search/+page.svelte: VirtualCardGrid, which pages by skip and limit
\* (PoolGrid does the same with pools for items).

\* The backend of the scenario: FullPages pages of GridLimit items, then one
\* page of ShortPage items.
FullPages == 3

ShortPage == 1

Backend == [i \in 1..(FullPages * GridLimit + ShortPage) |-> i]

\* loadPage(skip, limit)
LoadPage(from, limit) == SubSeq(Backend, from + 1, Min(from + limit, Len(Backend)))

\* What SpecGrid leaves alone.
gridRest == <<tags, files, nextCursor, itemsPerRow, dirty, sawEnd, failedMore,
              itemsBefore, fetchedCountRef, selVars, pressVars, mgrVars, session,
              pollVars>>

\* fetchInitialResults up to its await (on mount, or by refresh()).
GridFetchInitialResults ==
    /\ gen < MaxInits
    /\ gen' = gen + 1
    /\ loading' = TRUE
    /\ error' = FALSE
    /\ items' = <<>>
    /\ skip' = 0
    /\ hasMore' = TRUE
    /\ inflight' = Append(inflight, [kind |-> "init", skip |-> 0])
    /\ pagesDone' = 0
    /\ overlap' = (inflight # <<>>)
    /\ UNCHANGED <<fetching, gridRest>>

\* fetchInitialResults after its await: the try branch and finally.
GridInitOk(i) ==
    LET r        == inflight[i]
        newItems == LoadPage(r.skip, GridLimit)
    IN  /\ r.kind = "init"
        /\ items' = newItems
        /\ hasMore' = IF Len(newItems) < GridLimit THEN FALSE ELSE hasMore
        /\ skip' = skip + Len(newItems)
        /\ loading' = FALSE
        /\ inflight' = RemoveAt(inflight, i)
        /\ pagesDone' = pagesDone + 1
        /\ UNCHANGED <<error, fetching, gen, overlap, gridRest>>

\* fetchInitialResults after its await: the catch branch and finally.
GridInitFail(i) ==
    /\ inflight[i].kind = "init"
    /\ error' = TRUE
    /\ loading' = FALSE
    /\ inflight' = RemoveAt(inflight, i)
    /\ UNCHANGED <<items, skip, hasMore, fetching, gen, pagesDone, overlap, gridRest>>

\* fetchMoreItems up to its await; nothing happens when its guard fails.
GridFetchMoreItems ==
    /\ pagesDone < MaxGridPages
    /\ IF fetching \/ ~hasMore
       THEN UNCHANGED <<fetching, inflight, overlap>>
       ELSE /\ fetching' = TRUE
            /\ inflight' = Append(inflight, [kind |-> "more", skip |-> skip])
            /\ overlap' = (overlap \/ inflight # <<>>)
    /\ UNCHANGED <<items, skip, hasMore, loading, error, gen, pagesDone, gridRest>>

\* Variant of GridMoreOk that never takes a short page for the last one.
GridMoreOkNeverEnds(i) ==
    LET r        == inflight[i]
        newItems == LoadPage(r.skip, GridLimit)
    IN  /\ r.kind = "more"
        /\ items' = IF Len(newItems) > 0 THEN items \o newItems ELSE items
        /\ skip' = IF Len(newItems) > 0 THEN skip + Len(newItems) ELSE skip
        /\ fetching' = FALSE
        /\ inflight' = RemoveAt(inflight, i)
        /\ pagesDone' = pagesDone + 1
        /\ UNCHANGED <<hasMore, loading, error, gen, overlap, gridRest>>

\* fetchMoreItems after its await: the try branch and finally.
GridMoreOk(i) ==
    LET r        == inflight[i]
        newItems == LoadPage(r.skip, GridLimit)
    IN  /\ r.kind = "more"
        /\ items' = IF Len(newItems) > 0 THEN items \o newItems ELSE items
        /\ skip' = IF Len(newItems) > 0 THEN skip + Len(newItems) ELSE skip
        /\ hasMore' = IF Len(newItems) < GridLimit THEN FALSE ELSE hasMore
        /\ fetching' = FALSE
        /\ inflight' = RemoveAt(inflight, i)
        /\ pagesDone' = pagesDone + 1
        /\ UNCHANGED <<loading, error, gen, overlap, gridRest>>

\* fetchMoreItems after its await: the catch branch and finally.
GridMoreFail(i) ==
    /\ inflight[i].kind = "more"
    /\ fetching' = FALSE
    /\ inflight' = RemoveAt(inflight, i)
    /\ UNCHANGED <<items, skip, hasMore, loading, error, gen, pagesDone, overlap,
                   gridRest>>

\* The pool addPool puts in front of the list; the backend does not hold it.
NewPool == 0

\* PoolGrid: addPool(pool), called when a pool has been created.
GridAddPool ==
    /\ \A i \in 1..Len(items) : items[i] # NewPool
    /\ items' = <<NewPool>> \o items
    /\ skip' = skip + 1
    /\ UNCHANGED <<hasMore, loading, error, fetching, inflight, gen, pagesDone, overlap,
                   gridRest>>

\* A VirtualCardGrid before its first fetch.
InitGrid ==
    /\ tags = ""
    /\ files = <<>>
    /\ loading = FALSE
    /\ error = FALSE
    /\ fetching = FALSE
    /\ hasMore = TRUE
    /\ nextCursor = Null
    /\ itemsPerRow = 6
    /\ inflight = <<>>
    /\ gen = 0
    /\ dirty = FALSE
    /\ sawEnd = FALSE
    /\ failedMore = FALSE
    /\ itemsBefore = <<>>
    /\ InitSelection
    /\ InitPress
    /\ InitManager
    /\ GridUnused
    /\ InitPoller
    /\ poolId = FALSE
    /\ tagged = InitTagged

NextGrid ==
    \/ GridFetchInitialResults
    \/ \E i \in 1..Len(inflight) : GridInitOk(i)
    \/ \E i \in 1..Len(inflight) : GridInitFail(i)
    \/ GridFetchMoreItems
    \/ \E i \in 1..Len(inflight) : GridMoreOk(i)
    \/ \E i \in 1..Len(inflight) : GridMoreFail(i)

SpecGrid == InitGrid /\ [][NextGrid]_vars

\* PoolGrid: the same pagination over pools, with addPool.
NextPoolGrid ==
    \/ GridFetchInitialResults
    \/ \E i \in 1..Len(inflight) : GridInitOk(i)
    \/ \E i \in 1..Len(inflight) : GridInitFail(i)
    \/ GridFetchMoreItems
    \/ \E i \in 1..Len(inflight) : GridMoreOk(i)
    \/ \E i \in 1..Len(inflight) : GridMoreFail(i)
    \/ GridAddPool

SpecPoolGrid == InitGrid /\ [][NextPoolGrid]_vars

----------------------------------------------------------------------------
\* utils.ts: createProcessingPoller, and the UploadModal (part_012) that
\* creates one.  The modal's error, selectedFile and urlString are left out:
\* no handler below reads them.

\* The hashes a file can be uploaded under.
Shas == {1, 2}

\* processing_status: "pending" stands for every status that is neither
\* completed nor failed.
Statuses == {"pending", "completed", "failed"}

Final(status) == status \in {"completed", "failed"}

\* At most this many getFileStatus requests await their answer.
MaxPolls == 2

\* uploaded after the catch branch of poll() ran with currentSha256 null: a
\* file object whose sha256_hash is null.
NoHashFile == -1

pollRest == <<pageVars, selVars, pressVars, mgrVars, gridVars, session>>

\* poll() up to its await.
Poll(sha, pending) ==
    polls' = IF sha = Null THEN pending ELSE Issue(pending, sha)

\* stop()
PollerStop ==
    /\ interval' = FALSE
    /\ currentSha256' = Null

\* start(sha256)
PollerStart(sha256) ==
    IF currentSha256 = sha256 /\ interval
    THEN UNCHANGED <<interval, currentSha256, polls>>
    ELSE /\ currentSha256' = sha256
         /\ interval' = TRUE
         /\ Poll(sha256, polls)

\* The parent opens the UploadModal.
OpenUpload ==
    /\ ~uploadOpen
    /\ uploadOpen' = TRUE
    /\ lastUpdate' = "none"
    /\ UNCHANGED <<interval, currentSha256, polls, isUploading, isProcessing, uploaded>>
    /\ UNCHANGED pollRest

\* handleUpload / handleUploadUrl up to the await; the Upload button is shown
\* while uploaded is null and disabled while isUploading.
HandleUpload ==
    /\ uploadOpen /\ uploaded = Null /\ ~isUploading
    /\ isUploading' = TRUE
    /\ lastUpdate' = "none"
    /\ UNCHANGED <<interval, currentSha256, polls, uploadOpen, isProcessing, uploaded>>
    /\ UNCHANGED pollRest

\* uploadFile / uploadByUrl is answered with the file sha in the given
\* processing status: handleUploadComplete(result) and the finally.
UploadAnswered(sha, status) ==
    /\ isUploading
    /\ BagCardinality(polls) < MaxPolls
    /\ uploaded' = sha
    /\ IF ~Final(status)
       THEN isProcessing' = TRUE /\ PollerStart(sha)
       ELSE UNCHANGED <<isProcessing, interval, currentSha256, polls>>
    /\ isUploading' = FALSE
    /\ lastUpdate' = "none"
    /\ UNCHANGED uploadOpen
    /\ UNCHANGED pollRest

\* uploadFile / uploadByUrl is rejected: the catch and the finally.
UploadRejected ==
    /\ isUploading
    /\ isUploading' = FALSE
    /\ lastUpdate' = "none"
    /\ UNCHANGED <<interval, currentSha256, polls, uploadOpen, isProcessing, uploaded>>
    /\ UNCHANGED pollRest

\* The interval fires: poll() up to its await.
IntervalTick ==
    /\ interval
    /\ BagCardinality(polls) < MaxPolls
    /\ Poll(currentSha256, polls)
    /\ lastUpdate' = "none"
    /\ UNCHANGED <<interval, currentSha256, uploadOpen, isUploading, isProcessing, uploaded>>
    /\ UNCHANGED pollRest

\* The UploadModal's callback: onUpdate({status, file, error}).
OnUpdate(status, file) ==
    /\ uploaded' = file
    /\ isProcessing' = IF Final(status) THEN FALSE ELSE isProcessing
    /\ lastUpdate' = status

\* getFileStatus for sha is answered with the file in the given status: the
\* rest of the try block of poll().
PollAnswered(sha, status) ==
    /\ BagIn(sha, polls)
    /\ polls' = Answered(polls, sha)
    /\ OnUpdate(status, sha)
    /\ IF Final(status) THEN PollerStop ELSE UNCHANGED <<interval, currentSha256>>
    /\ UNCHANGED <<uploadOpen, isUploading>>
    /\ UNCHANGED pollRest

\* getFileStatus for sha is rejected: the catch block of poll().
PollRejected(sha) ==
    /\ BagIn(sha, polls)
    /\ polls' = Answered(polls, sha)
    /\ OnUpdate("failed", IF currentSha256 = Null THEN NoHashFile ELSE currentSha256)
    /\ PollerStop
    /\ UNCHANGED <<uploadOpen, isUploading>>
    /\ UNCHANGED pollRest

\* UploadModal handleClose
HandleClose ==
    /\ uploadOpen
    /\ PollerStop
    /\ uploadOpen' = FALSE
    /\ uploaded' = Null
    /\ isProcessing' = FALSE
    /\ lastUpdate' = "none"
    /\ UNCHANGED <<polls, isUploading>>
    /\ UNCHANGED pollRest

InitUpload ==
    /\ InitLoaded
    /\ InitSelection
    /\ InitPress
    /\ InitManager
    /\ GridUnused
    /\ InitPoller
    /\ poolId = FALSE
    /\ tagged = InitTagged

NextUpload ==
    \/ OpenUpload
    \/ HandleUpload
    \/ \E sha \in Shas, status \in Statuses : UploadAnswered(sha, status)
    \/ UploadRejected
    \/ IntervalTick
    \/ \E sha \in Shas, status \in Statuses : PollAnswered(sha, status)
    \/ \E sha \in Shas : PollRejected(sha)
    \/ HandleClose

SpecUpload == InitUpload /\ [][NextUpload]_vars

----------------------------------------------------------------------------
\* Properties of the pagination.

IsPrefix(s, t) == Len(s) <= Len(t) /\ SubSeq(t, 1, Len(s)) = s

MoreInFlight == {i \in 1..Len(inflight) : inflight[i].kind = "more"}

InitInFlight == {i \in 1..Len(inflight) : inflight[i].kind = "init"}

\* C1: when the answer to a fetchMoreItems issued before the latest
\* fetchInitialResults arrives, it changes none of files, nextCursor, hasMore.
C1_StaleMoreIgnored ==
    [][\A i \in 1..Len(inflight) :
          (inflight[i].kind = "more" /\ Stale(inflight[i]) /\ MoreResponseOk(i))
              => UNCHANGED <<files, nextCursor, hasMore>>]_vars

\* C2: once no initial fetch is in flight and none has failed, the list begins
\* with the first page of the query of the most recent fetchInitialResults,
\* whatever the order in which overlapping initial fetches were answered.
C2_LatestInitWins ==
    (tags # "" /\ ~error /\ InitInFlight = {})
        => IsPrefix(ServerPage(tags, Null).items, files)

C4_ExhaustionPermanent == sawEnd => ~hasMore

\* C5: at most one fetchMoreItems request is in flight at any time.
C5_OneMoreInFlight == Cardinality(MoreInFlight) <= 1

\* C5 witness: a fetchMoreItems request is in flight while the list is on
\* screen at a position that satisfies the scroll trigger's distance test.
C5_Witness ==
    /\ MoreInFlight # {}
    /\ VlistMounted
    /\ hasMore
    /\ nextCursor # Null
    /\ \E e \in 0..(NumRows - 1) :
           (e + 1) * itemsPerRow >= Len(files) - (itemsPerRow * 2)

\* C6: a fetchMoreItems call made while fetching is true, or hasMore is false,
\* or nextCursor is null, changes nothing and issues no request.
C6_LoadMoreNoOp ==
    [][((fetching \/ ~hasMore \/ nextCursor = Null) /\ FetchMoreItems)
          => UNCHANGED vars]_vars

\* C6 witness: states in which the call is refused for each of the reasons.
C6_Witness ==
    /\ fetching
    /\ hasMore
    /\ nextCursor # Null
    /\ tags # ""

----------------------------------------------------------------------------
\* Properties of the long-press gesture.

\* C7: immediately after every tap (toggleSelection), select mode is on
\* exactly when the selection is non-empty.
C7_ToggleKeepsModeInStep ==
    [][(\E h \in Hashes : Click(h)) => (isSelectMode' <=> selectedFiles' # {})]_vars

\* A tap in select mode has added a second file to the selection.
C7_Witness == isSelectMode /\ Cardinality(selectedFiles) = 2 /\ ~Overlay

\* C8: in every state reached by long-presses, taps, explicit exits, bulk
\* delete / pool add / pool remove / reorder completions and bulk-edit
\* closes, a non-empty selection implies select mode, and an empty selection
\* implies no select mode.
C8_SelectionModeInvariant ==
    /\ selectedFiles # {} => isSelectMode
    /\ selectedFiles = {} => ~isSelectMode

\* A bulk delete or pool removal has completed: the grid lost files and the
\* selection was left.
C8_Witness ==
    /\ Len(files) < Len(Results(tags))
    /\ selectedFiles = {}
    /\ ~isSelectMode
    /\ bulkOps = EmptyBag

\* C9: a long-press begun in Idle (press, the timeout fires, release, and the
\* click the release delivers to the same button) ends in Selecting with
\* exactly the pressed thumbnail selected.
C9_LongPressSelects ==
    lp.stage = "done" => (isSelectMode /\ selectedFiles = {lp.node})

\* C10: the long-press callback runs only for a press whose pointer is still
\* down: never for one that was released or cancelled before its timeout.
C10_NoFireAfterRelease ==
    [][\A t \in timeouts :
          TimerFires(t) => \E d \in down : d.id = t.id]_vars

\* C11: a press whose finger moved beyond the tolerance before its duration
\* elapsed never has its long-press callback invoked.
C11_MoveCancelsLongPress ==
    [][\A t \in timeouts :
          TimerFires(t) => ~(\E d \in down : d.id = t.id /\ d.moved)]_vars

\* C12: when the requests of a bulk delete have all succeeded, exactly the ids
\* the delete was confirmed for are removed from files (the others stay, in
\* order), the selection is empty and select mode is off.
C12_DeletePrunesSelected ==
    [][\A r \in InFlight("delete") :
          DeleteDone(r, TRUE) =>
              /\ files' = FilterOut(files, r.ids)
              /\ selectedFiles' = {}
              /\ ~isSelectMode']_vars

C14_PartialFailureAborts ==
    [][\A r \in InFlight("delete") \cup InFlight("remove") :
          (DeleteDone(r, FALSE) \/ RemoveDone(r, FALSE)) =>
              /\ files' = files
              /\ selectedFiles' = selectedFiles
              /\ isSelectMode' = isSelectMode
              /\ alertShown' = IF r.kind = "delete"
                               THEN "Failed to delete some files"
                               ELSE "Failed to remove some files from the pool"
              /\ bulkOps' = Answered(bulkOps, r)
              /\ editOps' = editOps]_vars

\* A bulk delete has just failed with files still selected and listed.
C14_Witness ==
    /\ alertShown = "Failed to delete some files"
    /\ isSelectMode
    /\ selectedFiles # {}
    /\ selectedFiles \subseteq Shown

\* C15: a fetchMoreItems that fails changes neither files nor nextCursor nor
\* hasMore, in the call or in the handling of the failure, and the failure
\* leaves fetching false.
C15_FailedMoreLeavesItems ==
    [][/\ FetchMoreItems => UNCHANGED <<files, nextCursor, hasMore>>
       /\ \A i \in DOMAIN inflight :
             MoreResponseFail(i) =>
                 /\ UNCHANGED <<files, nextCursor, hasMore>>
                 /\ ~fetching']_vars

\* A fetchMoreItems has failed with a page loaded and more to fetch.
C15_Witness ==
    /\ failedMore
    /\ ~fetching
    /\ files # <<>>
    /\ hasMore
    /\ nextCursor # Null

\* C16: when the latest fetchInitialResults fails, no answer of an earlier
\* fetch having arrived since it was called, error is set and files is the
\* sequence it was before the call.
C16_FailedInitLeavesItems ==
    [][\A i \in DOMAIN inflight :
          (InitResponseFail(i) /\ ~Stale(inflight[i]) /\ ~dirty) =>
              /\ error'
              /\ files' = itemsBefore]_vars

\* C17: whenever loading is true a searchFiles of fetchInitialResults is
\* pending and whenever fetching is true one of fetchMoreItems is; and, every
\* request being answered or rejected in the end, each flag that is true
\* becomes false again.
C17_FlagsNotStuck ==
    /\ [](loading => InitInFlight # {})
    /\ [](fetching => MoreInFlight # {})
    /\ (loading ~> ~loading)
    /\ (fetching ~> ~fetching)

\* A fetchInitialResults has failed and nothing is pending: both flags are
\* back to false.
C17_Witness ==
    /\ error
    /\ inflight = <<>>
    /\ ~loading
    /\ ~fetching

\* A bulk action of the selection toolbar completes, successfully or not.
BulkActionCompletes(ok) ==
    \/ \E r \in InFlight("delete") : DeleteDone(r, ok)
    \/ \E r \in InFlight("addpool") : PoolAddDone(r, ok)
    \/ \E r \in InFlight("remove") : RemoveDone(r, ok)
    \/ \E r \in InFlight("reorder") : ReorderDone(r, ok)

\* The bulk-edit modal closes.
BulkEditSessionEnds == HandleCloseModal /\ ~bulkEditModalOpen'

RECURSIVE Concat(_)
Concat(rs) == IF rs = <<>> THEN <<>> ELSE Head(rs) \o Concat(Tail(rs))

\* C19: the rows are ceil(Len(files) / itemsPerRow) many, every row but the
\* last holds itemsPerRow files, the last holds between 1 and itemsPerRow, and
\* the rows one after the other are files.
C19_RowGrouping ==
    LET n == Len(files)
        k == itemsPerRow
    IN  /\ k >= 1
        /\ Len(Rows) = (n + k - 1) \div k
        /\ \A j \in 1..(Len(Rows) - 1) : Len(Rows[j]) = k
        /\ Rows # <<>> => Len(Rows[Len(Rows)]) \in 1..k
        /\ Concat(Rows) = files

\* Several rows, the last one not full.
C19_Witness ==
    /\ Len(Rows) > 1
    /\ Len(Rows[Len(Rows)]) < itemsPerRow

\* fetchInitialResults and then p - 1 fetchMoreItems have loaded their pages,
\* each started with no other fetch pending, and nothing is pending now.
SeqRun(p) == gen >= 1 /\ ~overlap /\ inflight = <<>> /\ pagesDone = p

\* C20 as stated (50 items to a page scaled to GridLimit): after loadInitial
\* there are GridLimit items and more to come, and after three loadMore calls
\* there are four full pages of items (200 of 50) and no more to come.
C20_ScenarioAsStated ==
    /\ SeqRun(1) => (Len(items) = GridLimit /\ hasMore)
    /\ SeqRun(FullPages + 1) => (Len(items) = (FullPages + 1) * GridLimit /\ ~hasMore)

\* C20, amended: after loadInitial there are GridLimit items and more to
\* come; after three loadMore calls the list is the whole backend, three full
\* pages and the short one (160 of 50, 50, 50, 10), with no more to come, and
\* not before the last of them.
C20_Scenario ==
    /\ SeqRun(1) => (items = LoadPage(0, GridLimit) /\ Len(items) = GridLimit /\ hasMore)
    /\ \A p \in 2..FullPages : SeqRun(p) => (Len(items) = p * GridLimit /\ hasMore)
    /\ SeqRun(FullPages + 1) =>
           /\ items = Backend
           /\ Len(items) = FullPages * GridLimit + ShortPage
           /\ ~hasMore

\* The scenario has run to its end.
C20_Witness == SeqRun(FullPages + 1) /\ ~loading /\ ~fetching /\ ~error

\* C21: once a fetchMoreItems has failed, a scroll event at the end of the
\* list, with more to fetch and no fetch under way, meets handleScroll's
\* trigger condition, so that it issues a new request.
C21_RetryAfterFailedMore ==
    \A e \in 0..(NumRows - 1) :
        (/\ VlistMounted
         /\ failedMore
         /\ (e + 1) * itemsPerRow >= Len(files)
         /\ FetchMoreGuard) => SearchPageTrigger(e)

\* The condition the scroll trigger is specified by, for last visible row r.
NearEndAndIdle(r) ==
    /\ (r + 1) * itemsPerRow >= Len(files) - 2 * itemsPerRow
    /\ hasMore
    /\ ~fetching

\* C22: handleScroll's trigger condition is true exactly when the last
\* visible item is within two rows of the end, hasMore is true and fetching is
\* false; a scroll event then calls fetchMoreItems, and any other scroll
\* event changes no state.
C22_ScrollTrigger ==
    /\ [](\A r \in 0..(NumRows - 1) : ScrollTrigger(r) <=> NearEndAndIdle(r))
    /\ [][\A r \in 0..(NumRows - 1) :
             HandleScroll(r) =>
                 IF NearEndAndIdle(r) THEN FetchMoreItems ELSE UNCHANGED pageVars]_vars

\* A list long enough that a scroll at the first row does not trigger while a
\* scroll at the last row does.
C22_Witness ==
    /\ VlistMounted
    /\ ~NearEndAndIdle(0)
    /\ NearEndAndIdle(NumRows - 1)

\* C23: a click on a thumbnail outside select mode opens the lightbox at the
\* thumbnail's index and leaves the selection and the mode as they were; a
\* click in select mode toggles the thumbnail's membership in the selection
\* and leaves the lightbox closed.
C23_ModeDependentTap ==
    [][\A h \in Hashes :
          Click(h) =>
              IF isSelectMode
              THEN /\ h \in selectedFiles' <=> h \notin selectedFiles
                   /\ selectedFiles' \ {h} = selectedFiles \ {h}
                   /\ ~lightboxOpen'
                   /\ lightboxIndex' = lightboxIndex
              ELSE /\ lightboxOpen'
                   /\ files[lightboxIndex' + 1] = h
                   /\ UNCHANGED <<isSelectMode, selectedFiles>>]_vars

\* The lightbox was opened on the last of several thumbnails by a click
\* outside select mode.
C23_Witness ==
    /\ lightboxOpen
    /\ Len(files) > 1
    /\ lightboxIndex = Len(files) - 1
    /\ ~isSelectMode

\* C24: whenever no fetch is pending, skip is the number of items in the
\* list.
C24_SkipIsItemCount == inflight = <<>> => skip = Len(items)

\* C25: whenever at least one initial fetch is pending, loading is true,
\* also when an earlier initial fetch has already been answered.
C25_LoadingCoversInitFetches == InitInFlight # {} => loading

\* C26: the ids a successful bulk delete or remove-from-pool takes out of the
\* list are the ids its requests were issued for at confirm, whatever happened
\* to the selection while the requests were pending.
C26_PrunedIdsAreIssuedIds ==
    [][\A r \in InFlight("delete") \cup InFlight("remove") :
          (DeleteDone(r, TRUE) \/ RemoveDone(r, TRUE)) =>
              Shown \ Shown' = r.ids \cap Shown]_vars

\* The step closes the BulkEditModal.
ModalCloses == bulkEditModalOpen /\ ~bulkEditModalOpen'

\* C27: the BulkEditModal does not close while a bulk tag or metadata request
\* is pending; when it closes, onChange is invoked (hasChanges is set) exactly
\* when a bulk mutation succeeded since it was opened; and a session without
\* a success leaves the list, the selection and the mode alone on closing.
C27_CloseReportsSessionChanges ==
    /\ [][ModalCloses => EditInFlight({"add", "del", "meta"}) = {}]_vars
    /\ [][ModalCloses => (hasChanges <=> session.ok)]_vars
    /\ [][ModalCloses /\ ~session.ok =>
             UNCHANGED <<files, selectedFiles, isSelectMode>>]_vars

\* The names whose last successful bulk tag operation of the session was a
\* removal.
LastRemoved == {n \in EditTags : session.last[n] = "del"}

C29_NoUpdateAfterStop == [][~interval => lastUpdate' = "none"]_vars

====
